---- MODULE Spec2Model ----
(***************************************************************************)
(* Model of scripts/process_shipments.py: the column resolver              *)
(* (process_shipments), the shipment planner (perform_transport_planning)  *)
(* and the orchestrator (main).                                            *)
(*                                                                         *)
(* Strings are sequences of one-character strings, so that strip, lower,   *)
(* comparison and formatting are computed.  Load metres are integers in    *)
(* tenths of a metre (13.6 m = 136).                                       *)
(***************************************************************************)
EXTENDS Integers, Sequences, FiniteSets, TLC

VARIABLES
    pc,                \* position in main
    excel_path,        \* result of get_latest_excel_file
    raw,               \* the table read from the Excel file
    df_columns,        \* df.columns in process_shipments after the renames
    processed,         \* df_processed
    df_grouped,        \* the planner's table
    pos,               \* position of the assignment loop in df_grouped
    current_truck_id, current_carrier, current_lm,
    planner_calls,     \* number of calls of perform_transport_planning
    written            \* the tables written to FINAL_OUTPUT_FILE, in order

vars == <<pc, excel_path, raw, df_columns, processed, df_grouped, pos,
          current_truck_id, current_carrier, current_lm,
          planner_calls, written>>

(***************************************************************************)
(* Strings                                                                 *)
(***************************************************************************)
UpperChars == <<"A","B","C","D","E","F","G","H","I","J","K","L","M",
                "N","O","P","Q","R","S","T","U","V","W","X","Y","Z">>
LowerChars == <<"a","b","c","d","e","f","g","h","i","j","k","l","m",
                "n","o","p","q","r","s","t","u","v","w","x","y","z">>
DigitChars == <<"0","1","2","3","4","5","6","7","8","9">>

\* the characters in code-point order (the order Python compares strings by)
CharOrder == <<" ", "-", ".", "/">> \o DigitChars \o <<":">> \o UpperChars
             \o <<"_">> \o LowerChars

OrdOf == [c \in {CharOrder[k] : k \in 1..Len(CharOrder)} |->
             CHOOSE k \in 1..Len(CharOrder) : CharOrder[k] = c]

\* ord(c), up to the gaps between the characters used
Ord(c) == OrdOf[c]

\* str.lower() on one character
LowerOf == [c \in {UpperChars[k] : k \in 1..26} |->
               LowerChars[CHOOSE k \in 1..26 : UpperChars[k] = c]]

LowerChar(c) == IF c \in DOMAIN LowerOf THEN LowerOf[c] ELSE c

\* str.lower()
Lower(s) == [k \in 1..Len(s) |-> LowerChar(s[k])]

IsSpace(c) == c = " "

RECURSIVE LStrip(_)
LStrip(s) == IF s # <<>> /\ IsSpace(s[1]) THEN LStrip(Tail(s)) ELSE s

RECURSIVE RStrip(_)
RStrip(s) ==
    IF s # <<>> /\ IsSpace(s[Len(s)]) THEN RStrip(SubSeq(s, 1, Len(s) - 1))
    ELSE s

\* str.strip(): drop leading and trailing whitespace
Strip(s) == RStrip(LStrip(s))

\* a < b for Python strings: lexicographic by code point
StrLess(a, b) ==
    \E k \in 1..(Len(a) + 1) :
        /\ k <= Len(b)
        /\ \A j \in 1..(k - 1) : a[j] = b[j]
        /\ \/ k = Len(a) + 1
           \/ Ord(a[k]) < Ord(b[k])

\* str(n) for an integer n >= 0
RECURSIVE Digits(_)
Digits(n) ==
    IF n < 10 THEN <<DigitChars[n + 1]>>
    ELSE Digits(n \div 10) \o <<DigitChars[(n % 10) + 1]>>

(***************************************************************************)
(* Shipment planner                                                        *)
(***************************************************************************)
\* MAX_LM = 13.6 load metres, in tenths
MAX_LM == 136

\* f"{row['carrier']}-{current_truck_id}"
TruckId(carrier, n) == carrier \o <<"-">> \o Digits(n)

GroupKey(r) == <<r.carrier, r.shipto, r.sku>>

\* ordering of the group keys produced by groupby (sort=True)
KeyLess(a, b) ==
    \/ StrLess(a[1], b[1])
    \/ a[1] = b[1] /\ StrLess(a[2], b[2])
    \/ a[1] = b[1] /\ a[2] = b[2] /\ StrLess(a[3], b[3])

RECURSIVE SortedKeys(_)
SortedKeys(S) ==
    IF S = {} THEN <<>>
    ELSE LET m == CHOOSE x \in S : \A y \in S \ {x} : KeyLess(x, y)
         IN  <<m>> \o SortedKeys(S \ {m})

RECURSIVE SumLm(_)
SumLm(rows) ==
    IF rows = <<>> THEN 0 ELSE Head(rows).lm + SumLm(Tail(rows))

\* the rows of one group, in table order
RowsOf(rows, key) == SelectSeq(rows, LAMBDA r : GroupKey(r) = key)

\* an aggregation that keeps the first load of the group ('first')
AggFirst(rows) == IF rows = <<>> THEN 0 ELSE Head(rows).lm

\* agg(total_lm=('lm', 'sum'))
AggSum(rows) == SumLm(rows)

\* groupby(['carrier','shipto','sku']).agg(...).reset_index(), plus the two
\* new columns truck_id = None (the empty string here) and lm_used_in_truck
GroupBy(rows) ==
    LET keys == SortedKeys({GroupKey(rows[k]) : k \in 1..Len(rows)})
    IN  [k \in 1..Len(keys) |->
            [carrier          |-> keys[k][1],
             shipto           |-> keys[k][2],
             sku              |-> keys[k][3],
             num_items        |-> Len(RowsOf(rows, keys[k])),
             total_lm         |-> AggSum(RowsOf(rows, keys[k])),
             truck_id         |-> <<>>,
             lm_used_in_truck |-> 0]]

\* sort key ['carrier','shipto','total_lm'], ascending=[True, True, False]
SortBefore(a, b) ==
    \/ StrLess(a.carrier, b.carrier)
    \/ a.carrier = b.carrier /\ StrLess(a.shipto, b.shipto)
    \/ a.carrier = b.carrier /\ a.shipto = b.shipto /\ a.total_lm > b.total_lm

\* stable insertion of g in front of a sorted sequence's equal elements
InsertStable(g, s) ==
    LET n == Cardinality({k \in 1..Len(s) : SortBefore(s[k], g)})
    IN  SubSeq(s, 1, n) \o <<g>> \o SubSeq(s, n + 1, Len(s))

\* DataFrame.sort_values on several keys is a stable sort
RECURSIVE SortValues(_)
SortValues(s) ==
    IF s = <<>> THEN <<>> ELSE InsertStable(Head(s), SortValues(Tail(s)))

\* one iteration whose overflow branch adds the group's load to the running
\* load instead of restarting from it
AssignTruckNoReset(st, row) ==
    LET lm0  == IF st.carrier # <<row.carrier>> THEN 0 ELSE st.lm
        id0  == IF st.carrier # <<row.carrier>> THEN st.id + 1 ELSE st.id
    IN  IF lm0 + row.total_lm <= MAX_LM
        THEN [id |-> id0, carrier |-> <<row.carrier>>,
              lm |-> lm0 + row.total_lm,
              truck_id |-> TruckId(row.carrier, id0),
              used |-> lm0 + row.total_lm]
        ELSE [id |-> id0 + 1, carrier |-> <<row.carrier>>,
              lm |-> lm0 + row.total_lm,
              truck_id |-> TruckId(row.carrier, id0 + 1),
              used |-> lm0 + row.total_lm]

\* one iteration that never looks at the carrier and labels the truck with
\* its number only
AssignTruckNoCarrier(st, row) ==
    IF st.lm + row.total_lm <= MAX_LM
    THEN [id |-> st.id, carrier |-> st.carrier,
          lm |-> st.lm + row.total_lm,
          truck_id |-> <<"-">> \o Digits(st.id),
          used |-> st.lm + row.total_lm]
    ELSE [id |-> st.id + 1, carrier |-> st.carrier,
          lm |-> row.total_lm,
          truck_id |-> <<"-">> \o Digits(st.id + 1),
          used |-> row.total_lm]

\* one iteration that stamps the group's own load, not the running load
AssignTruckStaleUsed(st, row) ==
    LET lm0  == IF st.carrier # <<row.carrier>> THEN 0 ELSE st.lm
        id0  == IF st.carrier # <<row.carrier>> THEN st.id + 1 ELSE st.id
    IN  IF lm0 + row.total_lm <= MAX_LM
        THEN [id |-> id0, carrier |-> <<row.carrier>>,
              lm |-> lm0 + row.total_lm,
              truck_id |-> TruckId(row.carrier, id0),
              used |-> row.total_lm]
        ELSE [id |-> id0 + 1, carrier |-> <<row.carrier>>,
              lm |-> row.total_lm,
              truck_id |-> TruckId(row.carrier, id0 + 1),
              used |-> row.total_lm]

\* one iteration of the assignment loop: st is
\* (current_truck_id, current_carrier, current_lm); the result also carries
\* the two values stamped on the row
AssignTruck(st, row) ==
    LET lm0  == IF st.carrier # <<row.carrier>> THEN 0 ELSE st.lm
        id0  == IF st.carrier # <<row.carrier>> THEN st.id + 1 ELSE st.id
    IN  IF lm0 + row.total_lm <= MAX_LM
        THEN [id |-> id0, carrier |-> <<row.carrier>>,
              lm |-> lm0 + row.total_lm,
              truck_id |-> TruckId(row.carrier, id0),
              used |-> lm0 + row.total_lm]
        ELSE [id |-> id0 + 1, carrier |-> <<row.carrier>>,
              lm |-> row.total_lm,
              truck_id |-> TruckId(row.carrier, id0 + 1),
              used |-> row.total_lm]

(***************************************************************************)
(* Column resolver                                                         *)
(***************************************************************************)
s_shipto  == <<"s","h","i","p","t","o">>
s_carrier == <<"c","a","r","r","i","e","r">>
s_lm      == <<"l","m">>
s_sku     == <<"s","k","u">>
s_nan     == <<"n","a","n">>
s_verzenden_aan_code == <<"v","e","r","z","e","n","d","e","n","-","a","a","n"," ","c","o","d","e">>
s_vervoerder_ldv     == <<"v","e","r","v","o","e","r","d","e","r","/","l","d","v">>
s_load_meter         == <<"l","o","a","d"," ","m","e","t","e","r">>
s_onbekend_vervoerder == <<"O","N","B","E","K","E","N","D","_","V","E","R","V","O","E","R","D","E","R">>
s_onbekend_adres      == <<"O","N","B","E","K","E","N","D","_","A","D","R","E","S">>
s_unnamed            == <<"u","n","n","a","m","e","d",":"," ">>

\* position (0-based) of the column taken as the SKU when no header names it
SKU_POS == 61
SHIPTO_POS == 33
LM_POS == 70
CARRIER_POS == 80

\* the header pandas gives to a column without one, once normalised
UnnamedCol(n) == s_unnamed \o Digits(n)

\* a cell is a Python object: a str, an int (load metres in tenths) or NaN
StrCell(s) == [t |-> "str", s |-> s, n |-> 0]
NumCell(n) == [t |-> "num", s |-> <<>>, n |-> n]
NanCell    == [t |-> "nan", s |-> <<>>, n |-> 0]

\* str(x) of a cell, as Series.astype(str) applies it
AsStr(c) ==
    CASE c.t = "str" -> c.s
      [] c.t = "num" -> IF c.n < 0 THEN <<"-">> \o Digits(0 - c.n)
                        ELSE Digits(c.n)
      [] OTHER       -> s_nan

IsDigit(ch) == \E k \in 1..10 : DigitChars[k] = ch

DigitVal(ch) == (CHOOSE k \in 1..10 : DigitChars[k] = ch) - 1

RECURSIVE DigitsVal(_)
DigitsVal(s) ==
    IF s = <<>> THEN 0
    ELSE 10 * DigitsVal(SubSeq(s, 1, Len(s) - 1)) + DigitVal(s[Len(s)])

IsUnsigned(s) == s # <<>> /\ \A k \in 1..Len(s) : IsDigit(s[k])

\* pd.to_numeric(..., errors='coerce').fillna(0.0) on one cell; a str holds
\* whole metres, the result is in tenths
ToNumeric(c) ==
    CASE c.t = "num" -> c.n
      [] c.t = "str" ->
            IF IsUnsigned(c.s) THEN 10 * DigitsVal(c.s)
            ELSE IF Len(c.s) > 1 /\ c.s[1] = "-" /\ IsUnsigned(Tail(c.s))
                 THEN 0 - 10 * DigitsVal(Tail(c.s))
                 ELSE 0
      [] OTHER -> 0

\* a normalisation without .str.lower()
NormalizeHeaderNoLower(h) == Strip(h)

\* df.columns.astype(str).str.strip().str.lower()
NormalizeHeader(h) == Lower(Strip(h))

s_unnamed_shipto  == UnnamedCol(SHIPTO_POS)
s_unnamed_carrier == UnnamedCol(CARRIER_POS)
s_unnamed_lm      == UnnamedCol(LM_POS)
s_unnamed_sku     == UnnamedCol(SKU_POS)

\* the first rename: placeholder names and original names
RenameKnown(h) ==
    CASE h = s_unnamed_shipto        -> s_shipto
      [] h = s_unnamed_carrier       -> s_carrier
      [] h = s_unnamed_lm            -> s_lm
      [] h = s_verzenden_aan_code    -> s_shipto
      [] h = s_vervoerder_ldv        -> s_carrier
      [] h = s_load_meter            -> s_lm
      [] OTHER                       -> h

RenameOne(cols, old, new) ==
    [k \in 1..Len(cols) |-> IF cols[k] = old THEN new ELSE cols[k]]

\* the SKU rename: 'unnamed: 61' by name, else the 62nd column by position
RenameSku(cols) ==
    IF \E k \in 1..Len(cols) : cols[k] = s_unnamed_sku
    THEN RenameOne(cols, s_unnamed_sku, s_sku)
    ELSE IF Len(cols) > SKU_POS
         THEN RenameOne(cols, cols[SKU_POS + 1], s_sku)
         ELSE cols

\* the column names after both renames
ResolvedColumns(cols) ==
    RenameSku([k \in 1..Len(cols) |-> RenameKnown(NormalizeHeader(cols[k]))])

ColsNamed(cols, name) == {k \in 1..Len(cols) : cols[k] = name}

OnlyCol(cols, name) == CHOOSE k \in ColsNamed(cols, name) : TRUE

\* df[df['sku'] != ''] (the dropna before it sees strings only)
KeepSku(s) == s # <<>>

\* a cleaning step that fills a missing carrier or shipto column with the
\* sentinel of the fillna calls instead of returning the bare empty table
CleanSentinel(cols, rows) ==
    LET dup(c) == Cardinality(ColsNamed(cols, c)) > 1
        no(c)  == ColsNamed(cols, c) = {}
        at(c)  == IF no(c) THEN 0 ELSE OnlyCol(cols, c)
        iLm    == at(s_lm)
        iSku   == at(s_sku)
        iCar   == at(s_carrier)
        iShip  == at(s_shipto)
        canon  == [k \in 1..Len(rows) |->
                    [idx     |-> k,
                     carrier |-> IF iCar = 0 THEN s_onbekend_vervoerder
                                 ELSE Strip(AsStr(rows[k][iCar])),
                     shipto  |-> IF iShip = 0 THEN s_onbekend_adres
                                 ELSE Strip(AsStr(rows[k][iShip])),
                     sku     |-> Strip(AsStr(rows[k][iSku])),
                     lm      |-> IF iLm = 0 THEN 0
                                 ELSE ToNumeric(rows[k][iLm])]]
    IN  IF dup(s_lm) THEN [status |-> "raise", rows |-> <<>>]
        ELSE IF no(s_sku) THEN [status |-> "empty", rows |-> <<>>]
        ELSE IF dup(s_sku) \/ dup(s_carrier) \/ dup(s_shipto)
             THEN [status |-> "raise", rows |-> <<>>]
        ELSE [status |-> "ok",
              rows   |-> SelectSeq(canon, LAMBDA r : KeepSku(r.sku))]

\* process_shipments from step 3 on, given the renamed column names: status
\* "ok" with the canonical rows (idx is the DataFrame index label), "empty"
\* for the bare pd.DataFrame() returned when a critical column is missing,
\* "raise" when a duplicated column name makes pandas raise
Clean(cols, rows) ==
    LET dup(c) == Cardinality(ColsNamed(cols, c)) > 1
        no(c)  == ColsNamed(cols, c) = {}
        iLm    == IF no(s_lm) THEN 0 ELSE OnlyCol(cols, s_lm)
        iSku   == OnlyCol(cols, s_sku)
        iCar   == OnlyCol(cols, s_carrier)
        iShip  == OnlyCol(cols, s_shipto)
        canon  == [k \in 1..Len(rows) |->
                    [idx     |-> k,
                     carrier |-> Strip(AsStr(rows[k][iCar])),
                     shipto  |-> Strip(AsStr(rows[k][iShip])),
                     sku     |-> Strip(AsStr(rows[k][iSku])),
                     lm      |-> IF iLm = 0 THEN 0
                                 ELSE ToNumeric(rows[k][iLm])]]
    IN  IF dup(s_lm) THEN [status |-> "raise", rows |-> <<>>]
        ELSE IF no(s_sku) THEN [status |-> "empty", rows |-> <<>>]
        ELSE IF dup(s_sku) THEN [status |-> "raise", rows |-> <<>>]
        ELSE IF no(s_carrier) THEN [status |-> "empty", rows |-> <<>>]
        ELSE IF dup(s_carrier) THEN [status |-> "raise", rows |-> <<>>]
        ELSE IF no(s_shipto) THEN [status |-> "empty", rows |-> <<>>]
        ELSE IF dup(s_shipto) THEN [status |-> "raise", rows |-> <<>>]
        ELSE [status |-> "ok",
              rows   |-> SelectSeq(canon, LAMBDA r : KeepSku(r.sku))]

\* process_shipments(df)
process_shipments(df) == Clean(ResolvedColumns(df.cols), df.rows)

\* an emptiness test that never holds
DfEmptyNever(p) == FALSE

\* DataFrame.empty
DfEmpty(p) == p.rows = <<>>

(***************************************************************************)
(* Input tables                                                            *)
(***************************************************************************)
MaxRows == 2
MaxPlanRows == 3

\* an absent column is <<>>, a present one <<header>>
SkuHeaders     == {<<>>, <<<<"s","k","u">>>>, <<<<"M","a","t","e","r","i","a","l">>>>, <<<<"a","r","t","i","k","e","l">>>>,
                   <<<<"U","n","n","a","m","e","d",":"," ","6","1">>>>}
ShiptoHeaders  == {<<>>, <<<<" ","S","h","i","p","T","o"," ">>>>, <<<<"V","e","r","z","e","n","d","e","n","-","a","a","n"," ","c","o","d","e">>>>, <<<<"v","e","r","z","e","n","d","e","n"," ","a","a","n">>>>}
CarrierHeaders == {<<>>, <<<<"c","a","r","r","i","e","r">>>>, <<<<"V","e","r","v","o","e","r","d","e","r","/","L","D","V"," ">>>>, <<<<"v","e","r","v","o","e","r","d","e","r">>>>}
LmHeaders      == {<<>>, <<<<"l","m">>>>, <<<<"L","o","a","d"," ","M","e","t","e","r">>>>, <<<<"l","a","a","d","m","e","t","e","r">>>>}

\* header of the k-th (0-based) column in front of the four fields: left
\* blank in the sheet (pandas names it "Unnamed: k") or carrying a name
FillerHeader(style, k) ==
    IF style = "blank" THEN <<"U","n","n","a","m","e","d",":"," ">> \o Digits(k) ELSE <<"K">> \o Digits(k)

Layouts ==
    [pad : {0, SKU_POS, SKU_POS + 1}, style : {"blank", "named"},
     sku : SkuHeaders, shipto : ShiptoHeaders,
     carrier : CarrierHeaders, lm : LmHeaders]

LayoutCols(l) ==
    [k \in 1..l.pad |-> FillerHeader(l.style, k - 1)]
        \o l.sku \o l.shipto \o l.carrier \o l.lm

\* the cells of one sheet row: r gives the cell of each field
LayoutRow(l, r) ==
    [k \in 1..l.pad |-> NanCell]
        \o (IF l.sku = <<>> THEN <<>> ELSE <<r.sku>>)
        \o (IF l.shipto = <<>> THEN <<>> ELSE <<r.shipto>>)
        \o (IF l.carrier = <<>> THEN <<>> ELSE <<r.carrier>>)
        \o (IF l.lm = <<>> THEN <<>> ELSE <<r.lm>>)

MkTable(l, rs) ==
    [cols |-> LayoutCols(l),
     rows |-> [k \in 1..Len(rs) |-> LayoutRow(l, rs[k])]]

SeqsUpTo(S, n) == UNION {[1..m -> S] : m \in 0..n}

\* rows used with every layout: a valid and an invalid SKU
LayoutRows ==
    {[sku |-> StrCell(<<"P","1">>), shipto |-> StrCell(<<"X">>),
      carrier |-> StrCell(<<" ","A">>), lm |-> NumCell(70)],
     [sku |-> StrCell(<<" "," ">>), shipto |-> StrCell(<<"Y">>),
      carrier |-> StrCell(<<"B">>), lm |-> StrCell(<<"a","b","c">>)]}

SkuCells == {StrCell(<<>>), StrCell(<<" "," ">>), StrCell(<<"N","a","N">>), StrCell(<<" ","N","o","n","e"," ">>),
             StrCell(<<"0">>), StrCell(<<" ","a"," ">>), NanCell}

LmCells == {NumCell(0 - 50), NumCell(70), StrCell(<<"-","5">>), NanCell}

\* rows used with the directly recognised headers: every SKU and load cell
CellRows ==
    [sku : SkuCells, shipto : {StrCell(<<"X">>)},
     carrier : {StrCell(<<"A">>)}, lm : LmCells]

DirectLayout ==
    [pad |-> 0, style |-> "named", sku |-> <<<<"U","n","n","a","m","e","d",":"," ","6","1">>>>,
     shipto |-> <<<<"V","e","r","z","e","n","d","e","n","-","a","a","n"," ","c","o","d","e">>>>, carrier |-> <<<<"V","e","r","v","o","e","r","d","e","r","/","L","D","V"," ">>>>,
     lm |-> <<<<"L","o","a","d"," ","M","e","t","e","r">>>>]

NoDuplicateHeader(cols) ==
    Cardinality({cols[k] : k \in 1..Len(cols)}) = Len(cols)

\* the sheets read_excel can return (it never returns two equal headers),
\* each as its layout and the cells of its rows
RawInputs ==
    ({m \in Layouts : NoDuplicateHeader(LayoutCols(m))}
            \X SeqsUpTo(LayoutRows, MaxRows))
        \cup ({DirectLayout} \X SeqsUpTo(CellRows, MaxRows))

PlanCarriers == <<(<<"A">>), (<<"A","-","2">>)>>
PlanShiptos  == <<(<<"X">>), (<<"Y">>)>>
PlanSkus     == <<(<<"p">>), (<<"q">>)>>
PlanLoads    == <<0 - 20, 60, 80, 140>>

PoolSize == Len(PlanCarriers) * Len(PlanShiptos) * Len(PlanSkus) * Len(PlanLoads)

\* the i-th canonical row of the pool (i from 0): trimmed strings, a
\* non-empty sku, any load
PlanRow(i) ==
    [carrier |-> PlanCarriers[(i % Len(PlanCarriers)) + 1],
     shipto  |-> PlanShiptos[((i \div Len(PlanCarriers)) % Len(PlanShiptos)) + 1],
     sku     |-> PlanSkus[((i \div (Len(PlanCarriers) * Len(PlanShiptos)))
                                % Len(PlanSkus)) + 1],
     lm      |-> PlanLoads[(i \div (Len(PlanCarriers) * Len(PlanShiptos)
                                        * Len(PlanSkus))) + 1]]

\* a choice of pool rows that lists a table once up to the order of its
\* rows (the planner groups and sums, so the order of the rows does not
\* reach it)
NonDecreasing(f) == \A k \in 1..(Len(f) - 1) : f[k] <= f[k + 1]

PlanTable(f) ==
    [k \in 1..Len(f) |->
        [idx |-> k, carrier |-> PlanRow(f[k]).carrier,
         shipto |-> PlanRow(f[k]).shipto, sku |-> PlanRow(f[k]).sku,
         lm |-> PlanRow(f[k]).lm]]

(***************************************************************************)
(* main                                                                    *)
(***************************************************************************)
NoTable == [cols |-> <<>>, rows |-> <<>>]
NotProcessed == [status |-> "none", rows |-> <<>>]

Init ==
    /\ pc = "start"
    /\ excel_path = "unset"
    /\ raw = NoTable
    /\ df_columns = <<>>
    /\ processed = NotProcessed
    /\ df_grouped = <<>>
    /\ pos = 0
    /\ current_truck_id = 0
    /\ current_carrier = <<>>
    /\ current_lm = 0
    /\ planner_calls = 0
    /\ written = <<>>

\* main from the point where df_processed holds a non-empty canonical table
\* (the planner reads neither raw nor df_columns)
InitPlan ==
    /\ pc = "branch"
    /\ excel_path = "data/latest.xlsx"
    /\ raw = NoTable
    /\ df_columns = <<>>
    /\ \E n \in 1..MaxPlanRows :
        \E f \in [1..n -> 0..(PoolSize - 1)] :
            /\ NonDecreasing(f)
            /\ processed = [status |-> "ok", rows |-> PlanTable(f)]
    /\ df_grouped = <<>>
    /\ pos = 0
    /\ current_truck_id = 0
    /\ current_carrier = <<>>
    /\ current_lm = 0
    /\ planner_calls = 0
    /\ written = <<>>

\* get_latest_excel_file: a path, or FileNotFoundError and main returns
GetLatestExcelFile ==
    /\ pc = "start"
    /\ \E found \in BOOLEAN :
        /\ excel_path' = IF found THEN "data/latest.xlsx" ELSE "none"
        /\ pc' = IF found THEN "load" ELSE "exit"
    /\ UNCHANGED <<raw, df_columns, processed, df_grouped, pos, current_truck_id,
                   current_carrier, current_lm, planner_calls, written>>

\* df = pd.read_excel(excel_path, header=0)
ReadExcel ==
    /\ pc = "load"
    /\ \E t \in RawInputs : raw' = MkTable(t[1], t[2])
    /\ pc' = "resolve"
    /\ UNCHANGED <<excel_path, df_columns, processed, df_grouped, pos,
                   current_truck_id,
                   current_carrier, current_lm, planner_calls, written>>

\* df_processed = process_shipments(df); an exception ends main
ProcessShipments ==
    /\ pc = "resolve"
    /\ df_columns' = ResolvedColumns(raw.cols)
    /\ processed' = process_shipments(raw)
    /\ pc' = IF processed'.status = "raise" THEN "crashed" ELSE "branch"
    /\ UNCHANGED <<excel_path, raw, df_grouped, pos, current_truck_id,
                   current_carrier, current_lm, planner_calls, written>>

\* perform_transport_planning up to the loop: group, sort, reset the state
PlanGroup ==
    /\ pc = "branch"
    /\ ~DfEmpty(processed)
    /\ df_grouped' = SortValues(GroupBy(processed.rows))
    /\ pos' = 1
    /\ current_truck_id' = 1
    /\ current_carrier' = <<>>
    /\ current_lm' = 0
    /\ planner_calls' = planner_calls + 1
    /\ pc' = "loop"
    /\ UNCHANGED <<excel_path, raw, df_columns, processed, written>>

\* one iteration of the loop over df_grouped
PlanStep ==
    /\ pc = "loop"
    /\ pos <= Len(df_grouped)
    /\ LET r == AssignTruck([id |-> current_truck_id,
                             carrier |-> current_carrier,
                             lm |-> current_lm], df_grouped[pos])
       IN  /\ current_truck_id' = r.id
           /\ current_carrier' = r.carrier
           /\ current_lm' = r.lm
           /\ df_grouped' = [df_grouped EXCEPT
                                ![pos].truck_id = r.truck_id,
                                ![pos].lm_used_in_truck = r.used]
    /\ pos' = pos + 1
    /\ UNCHANGED <<pc, excel_path, raw, df_columns, processed, planner_calls,
                   written>>

\* the loop is over: return df_grouped to main
PlanReturn ==
    /\ pc = "loop"
    /\ pos > Len(df_grouped)
    /\ pc' = "write"
    /\ UNCHANGED <<excel_path, raw, df_columns, processed, df_grouped, pos,
                   current_truck_id, current_carrier, current_lm,
                   planner_calls, written>>

\* df_final.to_csv(FINAL_OUTPUT_FILE, ...)
WriteCsv ==
    /\ pc = "write"
    /\ written' = Append(written, df_grouped)
    /\ pc' = "exit"
    /\ UNCHANGED <<excel_path, raw, df_columns, processed, df_grouped, pos,
                   current_truck_id, current_carrier, current_lm,
                   planner_calls>>

\* the else branch of main: log the error, write nothing
NoData ==
    /\ pc = "branch"
    /\ DfEmpty(processed)
    /\ pc' = "exit"
    /\ UNCHANGED <<excel_path, raw, df_columns, processed, df_grouped, pos,
                   current_truck_id, current_carrier, current_lm,
                   planner_calls, written>>

Next ==
    \/ GetLatestExcelFile
    \/ ReadExcel
    \/ ProcessShipments
    \/ PlanGroup
    \/ PlanStep
    \/ PlanReturn
    \/ WriteCsv
    \/ NoData

NextPlan ==
    \/ PlanGroup
    \/ PlanStep
    \/ PlanReturn
    \/ WriteCsv

Spec == Init /\ [][Next]_vars

SpecPlan == InitPlan /\ [][NextPlan]_vars

(***************************************************************************)
(* Properties of the planner                                               *)
(***************************************************************************)
\* the planner has returned df_grouped to main
Planned == pc = "write"

\* the positions in df_grouped of the groups stamped with truck id t
TruckGroups(t) == {k \in 1..Len(df_grouped) : df_grouped[k].truck_id = t}

LastOf(S) == CHOOSE k \in S : \A j \in S : j <= k

RECURSIVE SumOver(_, _)
SumOver(f, S) ==
    IF S = {} THEN 0
    ELSE LET k == CHOOSE x \in S : TRUE IN f[k] + SumOver(f, S \ {k})

TotalLm == [k \in 1..Len(df_grouped) |-> df_grouped[k].total_lm]
NumItems == [k \in 1..Len(df_grouped) |-> df_grouped[k].num_items]

\* C1: once the planner has run, the load recorded on the last group of
\* every truck id is at most MAX_LM, unless the truck holds exactly one
\* group and that group's own total_lm exceeds MAX_LM.
C1_CapacityInvariant ==
    Planned =>
        \A k \in 1..Len(df_grouped) :
            LET S    == TruckGroups(df_grouped[k].truck_id)
                last == LastOf(S)
            IN  \/ df_grouped[last].lm_used_in_truck <= MAX_LM
                \/ S = {last} /\ df_grouped[last].total_lm > MAX_LM

C1_Witness ==
    /\ Planned
    /\ \E k \in 1..Len(df_grouped) :
        /\ TruckGroups(df_grouped[k].truck_id) = {k}
        /\ df_grouped[k].total_lm > MAX_LM
    /\ \E k \in 1..Len(df_grouped) :
        /\ Cardinality(TruckGroups(df_grouped[k].truck_id)) > 1
        /\ df_grouped[k].lm_used_in_truck > 0

\* C2: in the planner's output two groups with the same truck_id have the
\* same carrier.
C2_CarrierIsolation ==
    Planned =>
        \A j, k \in 1..Len(df_grouped) :
            df_grouped[j].truck_id = df_grouped[k].truck_id
                => df_grouped[j].carrier = df_grouped[k].carrier

C2_Witness ==
    /\ Planned
    /\ \E j, k \in 1..Len(df_grouped) :
        /\ j < k
        /\ df_grouped[j].carrier # df_grouped[k].carrier
        /\ df_grouped[j].total_lm + df_grouped[k].total_lm <= MAX_LM
        /\ df_grouped[j].truck_id # df_grouped[k].truck_id
    /\ \E j, k \in 1..Len(df_grouped) :
        j < k /\ df_grouped[j].truck_id = df_grouped[k].truck_id

\* C4: grouping conservation: at most one group per (carrier, shipto, sku),
\* the num_items of the groups add up to the number of input rows and their
\* total_lm to the sum of lm over the input rows.
C4_GroupingConservation ==
    Planned =>
        /\ \A j, k \in 1..Len(df_grouped) :
            GroupKey(df_grouped[j]) = GroupKey(df_grouped[k]) => j = k
        /\ SumOver(NumItems, DOMAIN NumItems) = Len(processed.rows)
        /\ SumOver(TotalLm, DOMAIN TotalLm) = SumLm(processed.rows)

C4_Witness ==
    /\ Planned
    /\ Len(df_grouped) >= 2
    /\ \E k \in 1..Len(df_grouped) :
        df_grouped[k].num_items >= 2 /\ df_grouped[k].total_lm # 0

\* C9: the truck number grows by at most one per group, the first group gets
\* number 2 and the first group of every later carrier gets the previous
\* group's number plus one (the overflow branch is not taken together with
\* the carrier-change branch).
C9_OneIncrementPerGroup ==
    Planned =>
        /\ df_grouped[1].truck_id = TruckId(df_grouped[1].carrier, 2)
        /\ \A k \in 2..Len(df_grouped) :
            \E n \in 1..(2 * Len(df_grouped) + 1) :
                /\ df_grouped[k - 1].truck_id
                        = TruckId(df_grouped[k - 1].carrier, n)
                /\ \/ df_grouped[k].truck_id
                        = TruckId(df_grouped[k].carrier, n + 1)
                   \/ /\ df_grouped[k].carrier = df_grouped[k - 1].carrier
                      /\ df_grouped[k].truck_id
                            = TruckId(df_grouped[k].carrier, n)

\* C10: lm_used_in_truck of a group is the sum of total_lm over the groups
\* with the same truck_id at or before it in the sort order.
C10_RunningTotal ==
    Planned =>
        \A k \in 1..Len(df_grouped) :
            df_grouped[k].lm_used_in_truck =
                SumOver(TotalLm,
                        {j \in TruckGroups(df_grouped[k].truck_id) : j <= k})

\* the scenario of loads 8.0, 6.0, 6.0 for one carrier: 8.0 alone on the
\* first truck, then 6.0 and 12.0 on the next
C10_Witness ==
    /\ Planned
    /\ Len(df_grouped) = 3
    /\ df_grouped[1].carrier = df_grouped[3].carrier
    /\ df_grouped[1].truck_id = TruckId(df_grouped[1].carrier, 2)
    /\ df_grouped[2].truck_id = TruckId(df_grouped[1].carrier, 3)
    /\ df_grouped[3].truck_id = TruckId(df_grouped[1].carrier, 3)
    /\ df_grouped[1].lm_used_in_truck = 80
    /\ df_grouped[2].lm_used_in_truck = 60
    /\ df_grouped[3].lm_used_in_truck = 120

(***************************************************************************)
(* Properties of the resolver and of main                                  *)
(***************************************************************************)
\* process_shipments has run on raw
Resolved == processed.status # "none" /\ pc # "resolve" /\ raw # NoTable

\* process_shipments has just returned or raised (raw and processed do not
\* change afterwards)
Returning == Resolved /\ pc \in {"branch", "crashed"}

HasCol(c) == ColsNamed(df_columns, c) # {}

\* the SKU cell of raw row k, as a string
RawSku(k) == AsStr(raw.rows[k][OnlyCol(df_columns, s_sku)])

Returned(k) == \E j \in 1..Len(processed.rows) : processed.rows[j].idx = k

s_none == <<"n","o","n","e">>

\* the SKU is valid: trimmed and lowercased it is not "", "nan" or "none"
ValidSku(s) == Lower(Strip(s)) \notin {<<>>, s_nan, s_none}

\* C3: with sku, shipto and carrier resolved, a row is returned by
\* process_shipments iff its sku, as a string, trimmed and lowercased, is
\* none of "", "nan", "none".
C3_FilterCorrectness ==
    (Returning /\ processed.status = "ok") =>
        \A k \in 1..Len(raw.rows) : Returned(k) <=> ValidSku(RawSku(k))

\* C7: every row returned by process_shipments has lm >= 0.
C7_LoadNonNegative ==
    (Returning /\ processed.status = "ok") =>
        \A j \in 1..Len(processed.rows) : processed.rows[j].lm >= 0

\* C6: when the shipto or the carrier column is absent from a table with at
\* least one row and one column, process_shipments still returns the rows
\* whose sku is valid.
C6_MissingFieldDefaulted ==
    (/\ Resolved
     /\ Len(raw.cols) >= 1 /\ Len(raw.rows) >= 1
     /\ ~HasCol(s_shipto) \/ ~HasCol(s_carrier)
     /\ Cardinality(ColsNamed(df_columns, s_sku)) = 1) =>
        \A k \in 1..Len(raw.rows) : ValidSku(RawSku(k)) => Returned(k)

\* C6 as amended: when the shipto or the carrier column is absent, or the
\* table has no row or no column, process_shipments returns no row (for an
\* absent column: the bare empty table, or an exception), the planner is
\* not called and nothing is written.  Only a missing lm column is
\* defaulted: its rows get lm = 0.
C6_MissingFieldAborts ==
    /\ (/\ Resolved
        /\ \/ ~HasCol(s_shipto) \/ ~HasCol(s_carrier)
           \/ Len(raw.cols) = 0 \/ Len(raw.rows) = 0) =>
            /\ processed.rows = <<>>
            /\ (~HasCol(s_shipto) \/ ~HasCol(s_carrier))
                    => processed.status \in {"empty", "raise"}
            /\ planner_calls = 0
            /\ written = <<>>
    /\ (Resolved /\ ~HasCol(s_lm) /\ processed.status = "ok") =>
            \A j \in 1..Len(processed.rows) : processed.rows[j].lm = 0

C6_Witness ==
    /\ pc = "exit"
    /\ Resolved
    /\ processed.status = "empty"
    /\ ~HasCol(s_carrier)
    /\ HasCol(s_shipto)
    /\ Cardinality(ColsNamed(df_columns, s_sku)) = 1
    /\ \E k \in 1..Len(raw.rows) : ValidSku(RawSku(k))

\* C8: the output is written at most once and only after the resolver and
\* the planner have both completed; without an input file, or with an empty
\* canonical table, the planner is not called and nothing is written.
C8_WriteOnceAfterPlan ==
    /\ Len(written) <= 1
    /\ written # <<>> =>
        /\ pc = "exit"
        /\ processed.status = "ok" /\ ~DfEmpty(processed)
        /\ planner_calls = 1
        /\ pos = Len(df_grouped) + 1
        /\ written[1] = df_grouped
        /\ \A k \in 1..Len(df_grouped) : df_grouped[k].truck_id # <<>>
    /\ (excel_path = "none" \/ (Resolved /\ DfEmpty(processed))) =>
        (planner_calls = 0 /\ written = <<>>)

C8_Witness ==
    /\ pc = "exit"
    /\ Len(written) = 1
    /\ Len(processed.rows) >= 1
    /\ Len(raw.rows) > Len(processed.rows)

(***************************************************************************)
(* Alias resolution                                                        *)
(***************************************************************************)
s_verzenden_aan == <<"v","e","r","z","e","n","d","e","n"," ","a","a","n">>
s_vervoerder    == <<"v","e","r","v","o","e","r","d","e","r">>
s_laadmeter     == <<"l","a","a","d","m","e","t","e","r">>
s_material      == <<"m","a","t","e","r","i","a","l">>
s_artikel       == <<"a","r","t","i","k","e","l">>

\* the headers trimmed and lowercased
Norm(cols) == [k \in 1..Len(cols) |-> Lower(Strip(cols[k]))]

ColsIn(n, names) == {k \in 1..Len(n) : n[k] \in names}

\* the four columns (sets of positions) f names are one column each
OneColumnEach(f) ==
    /\ \A c \in DOMAIN f : Cardinality(f[c]) = 1
    /\ Cardinality(UNION {f[c] : c \in DOMAIN f}) = 4

\* the table with the four columns f names given their canonical names
Twin(cols, f) ==
    [k \in 1..Len(cols) |->
        CASE k \in f.shipto  -> s_shipto
          [] k \in f.carrier -> s_carrier
          [] k \in f.lm      -> s_lm
          [] k \in f.sku     -> s_sku
          [] OTHER           -> cols[k]]

\* the columns the alias sets of the specification name
ClaimedFields(cols) ==
    LET n == Norm(cols)
    IN  [shipto  |-> ColsIn(n, {s_shipto, s_verzenden_aan, s_verzenden_aan_code}),
         carrier |-> ColsIn(n, {s_carrier, s_vervoerder, s_vervoerder_ldv}),
         lm      |-> ColsIn(n, {s_lm, s_laadmeter, s_load_meter}),
         sku     |-> IF ColsIn(n, {s_material}) # {}
                         THEN ColsIn(n, {s_material})
                     ELSE IF ColsIn(n, {s_artikel}) # {}
                         THEN ColsIn(n, {s_artikel})
                     ELSE IF Len(n) > SKU_POS THEN {SKU_POS + 1}
                     ELSE ColsIn(n, {s_sku})]

\* C5: a table whose headers use one alias from each field's alias set
\* (shipto: "verzenden aan" / "verzenden-aan code"; carrier: "vervoerder" /
\* "vervoerder/ldv"; load: "laadmeter" / "load meter"; sku: "material", else
\* "artikel", else the positional column), in any case and with surrounding
\* whitespace, resolves to the same canonical rows as the table with the
\* canonical names.
C5_AliasResolution ==
    (Returning /\ OneColumnEach(ClaimedFields(raw.cols))) =>
        processed.rows =
            process_shipments([cols |-> Twin(raw.cols, ClaimedFields(raw.cols)),
                               rows |-> raw.rows]).rows

\* the columns named by the names process_shipments recognises
RecognisedFields(cols) ==
    LET n == Norm(cols)
    IN  [shipto  |-> ColsIn(n, {s_shipto, s_verzenden_aan_code,
                                s_unnamed_shipto}),
         carrier |-> ColsIn(n, {s_carrier, s_vervoerder_ldv,
                                s_unnamed_carrier}),
         lm      |-> ColsIn(n, {s_lm, s_load_meter, s_unnamed_lm}),
         sku     |-> IF Len(n) > SKU_POS
                     THEN {k \in {SKU_POS + 1} :
                              \A j \in 1..Len(n) :
                                  n[j] \in {s_sku, s_unnamed_sku, n[k]}
                                      => j = k}
                     ELSE ColsIn(n, {s_sku, s_unnamed_sku})]

\* C5 as amended: with shipto, carrier and load each named by one header
\* out of the names the code recognises ("verzenden-aan code" /
\* "unnamed: 33", "vervoerder/ldv" / "unnamed: 80", "load meter" /
\* "unnamed: 70", or the canonical name) and the sku being the column at
\* position 61, or in a table of at most 61 columns the one column named
\* "unnamed: 61" or "sku", in any case and with surrounding whitespace, the
\* result is that of the table with the four canonical names.
C5_RecognisedAliasResolution ==
    (Returning /\ OneColumnEach(RecognisedFields(raw.cols))) =>
        processed =
            process_shipments([cols |-> Twin(raw.cols, RecognisedFields(raw.cols)),
                               rows |-> raw.rows])

C5_Witness ==
    /\ Returning
    /\ OneColumnEach(RecognisedFields(raw.cols))
    /\ processed.status = "ok"
    /\ processed.rows # <<>>
    /\ \A c \in {"shipto", "carrier", "lm", "sku"} :
        \A k \in RecognisedFields(raw.cols)[c] :
            /\ raw.cols[k] # Twin(raw.cols, RecognisedFields(raw.cols))[k]
            /\ raw.cols[k] # Lower(raw.cols[k])

====
